---- MODULE Spec2Model ----
(***************************************************************************)
(* Model of the Mem4AI memory engine (src/agentloop/mem4ai.py) and its     *)
(* SQLite storage adapter (src/agentloop/mem_db_adapter.py).               *)
(*                                                                         *)
(* The database is three tables: sessions, messages and the full-text      *)
(* mirror messages_fts.  Every caller-facing method of Mem4AI is one       *)
(* action; every handle starts its own background embedding consumer,     *)
(* which is three actions (the thread's start, a queue get that succeeds,  *)
(* a queue get that times out).  The variable last records the call that   *)
(* was just made, its arguments and what it returned or raised.            *)
(*                                                                         *)
(* Text is modelled as a sequence of words; the tokenizer counts words.    *)
(* Metadata is the sequence of the entries of its serialized form; a       *)
(* value is the sequence of its characters, quoted (str) or not (int).     *)
(* Time is in seconds; timestamps stored by SQLite are UTC, while          *)
(* datetime.now() is the local wall clock, tz seconds ahead of UTC.        *)
(***************************************************************************)
EXTENDS Integers, Sequences, FiniteSets, TLC

\* ---------------------------------------------------------------- bounds
MaxMsgs == 2
MaxSessionMsgs == 1
MaxChunkMsgs == 3
MaxPending == 1
MaxRowId == 3
MaxQueued == 33

\* ------------------------------------------------------ program constants
context_window == 4096
session_timeout == 1800
chunk_gap == 600
SafetyBufferTenths == 2
ShortTermTenths == 7
EMBEDDING_BATCH_SIZE == 32
RowLimit == 100

\* ------------------------------------------------------------ input sets
None == "None"
Handles == {"h1", "h2"}
SessionIds == {"s1", "s2"}
UserIds == {"u1", "u2"}
AgentIds == {<<"a", "1">>, <<"a", "_">>}
NoAgent == <<>>
Threads == {"caller", "consumer"}
Roles == {"user", "assistant", "tool"}
Hi == <<"hi">>
NextDay == <<"next", "day">>
NoMeta == <<>>
Entry(key, type, text) == [key |-> key, type |-> type, text |-> text]
AgentMeta == <<Entry("agent_id", "str", <<"a", "1">>)>>
CountMeta == <<Entry("n", "int", <<"1", "2">>)>>

\* sessions, messages, messages_fts: the three tables.
\* active_session_id[h]: the handle's active session.
\* EMBEDDING_QUEUE: the class-level queue all handles share.
\* batch[h]: the batch of the consumer thread that handle h started.
\* conn[h][t]: the connection of thread t in h's adapter ("none" before
\* the thread's first get_connection; conn[h]["caller"] = "none" before h
\* is constructed).
\* EMBEDDING_THREAD[h]: the handle's consumer thread: "none" before h is
\* constructed, "starting" until it has created its provider client,
\* then "alive", or "stopped" when its loop has ended.
\* assigned: the greatest message_id an INSERT ever got (0 before the
\* first); a history the store itself does not keep.
VARIABLES sessions, messages, messages_fts, active_session_id,
          EMBEDDING_QUEUE, batch, now, tz, conn, EMBEDDING_THREAD, assigned,
          last

vars == <<sessions, messages, messages_fts, active_session_id,
          EMBEDDING_QUEUE, batch, now, tz, conn, EMBEDDING_THREAD, assigned,
          last>>

\* ---------------------------------------------------------------- helpers
Max(S) == CHOOSE x \in S : \A y \in S : y <= x

Min2(a, b) == IF a <= b THEN a ELSE b

RECURSIVE SumTokens(_)
SumTokens(rows) ==
    IF rows = <<>> THEN 0 ELSE Head(rows).tokens + SumTokens(Tail(rows))

Reverse(seq) == [i \in 1..Len(seq) |-> seq[Len(seq) + 1 - i]]

\* All orders in which a SELECT ... ORDER BY timestamp DESC may return the
\* rows of S: rows of equal timestamp come in any order.
OrderedDesc(S) ==
    {f \in [1..Cardinality(S) -> S] :
        /\ \A i, j \in 1..Cardinality(S) : i # j => f[i] # f[j]
        /\ \A i, j \in 1..Cardinality(S) : i < j => f[i].timestamp >= f[j].timestamp}

\* All orders of the rows of S (a ranking this model does not compute).
AnyOrder(S) ==
    {f \in [1..Cardinality(S) -> S] :
        \A i, j \in 1..Cardinality(S) : i # j => f[i] # f[j]}

Limit(seq, n) == SubSeq(seq, 1, Min2(Len(seq), n))

\* The tokenizer: one token per word.
Tokenizer(content) == Len(content)

\* The record of a call: the method, the handle, the arguments, the value
\* returned, the exception raised (None when it returned), for add_memory
\* the rowid of the row it inserted, and what the call found: whether
\* load_session's session row existed and was within session_timeout, and
\* how many rows the three tables held before clear_memory or clear_all.
Found(exists, fresh, rows) == [exists |-> exists, fresh |-> fresh, rows |-> rows]

NothingFound == Found(FALSE, FALSE, 0)

Call(op, h, args, ret, exc, row, pre) ==
    [op |-> op, h |-> h, args |-> args, ret |-> ret, exc |-> exc, row |-> row,
     pre |-> pre]

\* ----------------------------------------------------- DatabaseAdapter
session_exists(session_id) ==
    \E s \in sessions : s.session_id = session_id

session_is_active(session_id, timeout_seconds) ==
    \E s \in sessions :
        /\ s.session_id = session_id
        /\ s.last_active + timeout_seconds > now

\* update_session writing the user_id argument even when it is None.
update_session_mut(session_id, user_id) ==
    {IF s.session_id = session_id
        THEN [s EXCEPT !.last_active = now, !.user_id = user_id]
        ELSE s : s \in sessions}

update_session(session_id, user_id) ==
    {IF s.session_id = session_id
        THEN [s EXCEPT !.last_active = now,
                       !.user_id = IF user_id # None THEN user_id ELSE @]
        ELSE s : s \in sessions}

\* create_session whose INSERT is lost.
create_session_mut(session_id, user_id) == sessions

create_session(session_id, user_id) ==
    sessions \cup {[session_id |-> session_id, user_id |-> user_id,
                    created_at |-> now, last_active |-> now]}


\* Rowid of the next INSERT into messages (INTEGER PRIMARY KEY without
\* AUTOINCREMENT: one more than the largest rowid in the table).
NextRowId ==
    IF messages = {} THEN 1 ELSE Max({m.message_id : m \in messages}) + 1

\* Python None for a message id (rowids start at 1).
NoMessageId == 0

\* The assistant rows of a session that ORDER BY timestamp DESC LIMIT 1
\* may return: those with the greatest timestamp.
get_last_assistant_message(session_id) ==
    LET asst == {m \in messages :
                    m.session_id = session_id /\ m.role = "assistant"}
    IN {m \in asst : \A o \in asst : o.timestamp <= m.timestamp}

\* add_message with the chunk_index and tokens values swapped.
add_message_mut(session_id, chunk_index, role, content, tokens, metadata) ==
    messages \cup {[message_id |-> NextRowId, session_id |-> session_id,
                    chunk_index |-> tokens, role |-> role,
                    content |-> content, tokens |-> chunk_index,
                    timestamp |-> now, metadata |-> metadata]}

\* The messages table after add_message; the timestamp column defaults
\* to CURRENT_TIMESTAMP.
add_message(session_id, chunk_index, role, content, tokens, metadata) ==
    messages \cup {[message_id |-> NextRowId, session_id |-> session_id,
                    chunk_index |-> chunk_index, role |-> role,
                    content |-> content, tokens |-> tokens,
                    timestamp |-> now, metadata |-> metadata]}

\* add_message keying the mirror row one past the row just inserted.
add_message_fts_mut(session_id, role, content, metadata) ==
    messages_fts \cup {[rowid |-> NextRowId + 1, content |-> content,
                        session_id |-> session_id, metadata |-> metadata,
                        role |-> role]}

\* The full-text mirror after add_message: keyed by last_insert_rowid().
add_message_fts(session_id, role, content, metadata) ==
    messages_fts \cup {[rowid |-> NextRowId, content |-> content,
                        session_id |-> session_id, metadata |-> metadata,
                        role |-> role]}

\* escape_fts_query ORs the words of the query: a mirror row matches when
\* its content holds one of them.  A query without words matches nothing.
FtsMatch(content, query) ==
    \E i \in 1..Len(query), j \in 1..Len(content) : query[i] = content[j]

\* escape_fts_query quotes only the words that hold punctuation, so a word
\* that is an FTS5 operator reaches MATCH bare and the statement fails
\* with "fts5: syntax error".
FtsKeywords == {"AND", "OR", "NOT"}

FtsSyntaxError(query) == \E i \in 1..Len(query) : query[i] \in FtsKeywords

\* SQLite's LIKE on characters: _ in the pattern stands for any character.
LikeChars(pattern, text) ==
    \A i \in 1..Len(pattern) : pattern[i] = "_" \/ pattern[i] = text[i]

\* metadata LIKE '%'k': 'v'%' for a string v (the closing quote fixes the
\* length) and '%'k': v%' for any other v (nothing closes the value, so a
\* stored value that starts with v's text matches too).
MetadataLike(metadata, e) ==
    \E i \in 1..Len(metadata) :
        /\ metadata[i].key = e.key
        /\ metadata[i].type = e.type
        /\ IF e.type = "str" THEN Len(metadata[i].text) = Len(e.text)
                              ELSE Len(metadata[i].text) >= Len(e.text)
        /\ LikeChars(e.text, metadata[i].text)

\* search_messages without time range, for a query MATCH accepts: the
\* possible result lists.  query = <<>> is the empty string (no MATCH
\* clause, newest first); None for session_id means no session filter;
\* metadata_filter is the sequence of the filter's entries.
search_messages(query, session_id, metadata_filter, limit) ==
    LET joined == {m \in messages :
                      \E f \in messages_fts :
                          /\ f.rowid = m.message_id
                          /\ query # <<>> => FtsMatch(f.content, query)}
        rows == {m \in joined :
                    /\ session_id # None => m.session_id = session_id
                    /\ \A i \in 1..Len(metadata_filter) :
                          MetadataLike(m.metadata, metadata_filter[i])}
    IN {Limit(o, limit) :
          o \in IF query # <<>> THEN AnyOrder(rows) ELSE OrderedDesc(rows)}

\* DatabaseAdapter.get_session_messages: newest first, LIMIT, reversed.
db_get_session_messages(session_id, limit) ==
    LET rows == {m \in messages : m.session_id = session_id}
    IN {Reverse(Limit(o, limit)) : o \in OrderedDesc(rows)}

\* LIKE '%''agent_id'': ''<agent_id>''%' on the serialized metadata.
MetadataHasAgent(metadata, agent_id) ==
    MetadataLike(metadata, Entry("agent_id", "str", agent_id))

\* clear_memory_by_conditions: the session ids to delete.
SessionIdsToDelete(session_id, user_id) ==
    (IF session_id # None THEN {session_id} ELSE {})
    \cup (IF user_id # None
            THEN {s.session_id : s \in {x \in sessions : x.user_id = user_id}}
            ELSE {})

\* clear_memory_by_conditions: the three tables afterwards.  NoAgent is
\* an agent_id that is None or empty.
clear_memory_by_conditions(session_id, agent_id, user_id) ==
    LET ids == SessionIdsToDelete(session_id, user_id)
        message_ids == {m.message_id : m \in {x \in messages : x.session_id \in ids}}
        fts1 == {f \in messages_fts : f.rowid \notin message_ids}
        msgs1 == {m \in messages : m.session_id \notin ids}
        sess1 == {s \in sessions : s.session_id \notin ids}
        agent_message_ids ==
            IF agent_id # NoAgent
              THEN {m.message_id :
                      m \in {x \in msgs1 : MetadataHasAgent(x.metadata, agent_id)}}
              ELSE {}
    IN [sessions |-> sess1,
        messages |-> {m \in msgs1 : m.message_id \notin agent_message_ids},
        messages_fts |-> {f \in fts1 : f.rowid \notin agent_message_ids},
        ret |-> TRUE]

\* clear_all without the DELETE on the full-text mirror.
clear_all_mut ==
    [sessions |-> {}, messages |-> {}, messages_fts |-> messages_fts, ret |-> TRUE]

\* clear_all: the three DELETE statements.
clear_all ==
    [sessions |-> {}, messages |-> {}, messages_fts |-> {}, ret |-> TRUE]

\* ------------------------------------------------------------- Mem4AI
RECURSIVE ApplyLoop(_, _, _)
ApplyLoop(msgs, limit_tokens, total_tokens) ==
    IF msgs = <<>> THEN <<>>
    ELSE IF total_tokens + Head(msgs).tokens <= limit_tokens
      THEN <<Head(msgs)>> \o ApplyLoop(Tail(msgs), limit_tokens,
                                       total_tokens + Head(msgs).tokens)
      ELSE <<>>

\* _apply_token_limit: a limit of 0 (or None) is "no limit".
_apply_token_limit(msgs, limit_tokens) ==
    IF limit_tokens = 0 THEN msgs ELSE ApplyLoop(msgs, limit_tokens, 0)

\* Mem4AI.get_session_messages: the possible results.
get_session_messages(h, token_limit) ==
    {_apply_token_limit(all_messages, token_limit) :
        all_messages \in db_get_session_messages(active_session_id[h], RowLimit)}

\* Mem4AI.vector_search: whether or not the provider answers
\* (_get_query_embedding falls back to a zero vector), the call of
\* self.db.search_vectors raises, DatabaseAdapter having no such method.
vector_search(h, query) == "AttributeError"

\* Mem4AI.search_memory: the possible results.  The except branch, the
\* keyword search, runs whenever vector_search raised.
search_memory(h, query, metadata_filter, limit_tokens) ==
    IF vector_search(h, query) # None
      THEN {_apply_token_limit(hybrid_results, limit_tokens) :
              hybrid_results \in search_messages(query, active_session_id[h],
                                                 metadata_filter, RowLimit)}
      ELSE {<<>>}

\* The exception search_memory lets through: the keyword search is made
\* inside the except branch, outside any try.
search_memory_exc(h, query) ==
    IF conn[h]["caller"] = "closed" THEN "ProgrammingError"
    ELSE IF query # <<>> /\ FtsSyntaxError(query) THEN "OperationalError"
    ELSE None

\* int(max_tokens * (1 - safety_buffer))
UsableTokens(max_tokens) ==
    (max_tokens * (10 - SafetyBufferTenths)) \div 10

\* int(usable_tokens * 0.7)
ShortTermMax(usable_tokens) == (usable_tokens * ShortTermTenths) \div 10

\* Mem4AI.build_context: the possible results; exc is the exception of
\* search_memory, which build_context lets through.
build_context(h, user_query, max_tokens_arg) ==
    LET max_tokens == IF max_tokens_arg # 0 THEN max_tokens_arg ELSE context_window
        usable_tokens == UsableTokens(max_tokens)
        short_term_max == ShortTermMax(usable_tokens)
    IN UNION {
         LET long_term_max == usable_tokens - SumTokens(short_term)
         IN IF long_term_max > 0 /\ search_memory_exc(h, user_query) # None
              THEN {[short_term |-> short_term, long_term |-> <<>>,
                     exc |-> search_memory_exc(h, user_query)]}
              ELSE {[short_term |-> short_term, long_term |-> long_term,
                     exc |-> None] :
                      long_term \in IF long_term_max > 0
                                      THEN search_memory(h, user_query, <<>>,
                                                         long_term_max)
                                      ELSE {<<>>}}
         : short_term \in get_session_messages(h, short_term_max)}

\* add_memory's chunk index for a user message, given the assistant row
\* get_last_assistant_message returned.
ChunkIndex(lastRow) ==
    LET time_diff == (now + tz) - lastRow.timestamp
    IN IF time_diff > chunk_gap THEN lastRow.chunk_index + 1
                                ELSE lastRow.chunk_index


\* ------------------------------------------------------------- actions
\* The state after both handles were constructed: the constructing thread
\* holds an open connection in each adapter, the provider client could be
\* created in h1's consumer thread and not in h2's.
InitWith(tzs) ==
    /\ sessions = {}
    /\ messages = {}
    /\ messages_fts = {}
    /\ active_session_id = [h \in Handles |-> None]
    /\ EMBEDDING_QUEUE = <<>>
    /\ batch = [h \in Handles |-> <<>>]
    /\ now = 0
    /\ tz \in tzs
    /\ conn = [h \in Handles |-> [t \in Threads |->
                  IF t = "caller" THEN "open" ELSE "none"]]
    /\ EMBEDDING_THREAD = [h \in Handles |->
                  IF h = "h1" THEN "alive" ELSE "stopped"]
    /\ assigned = 0
    /\ last = Call("init", None, <<>>, None, None, 0, NothingFound)

\* The handle was constructed (initialize_db opened the caller's connection).
Constructed(h) == conn[h]["caller"] # "none"

\* close() closed the caller's connection, which get_connection keeps
\* returning: every statement raises sqlite3.ProgrammingError.
Closed(h) == conn[h]["caller"] = "closed"

\* A call that returns ret or raises exc and changes nothing.
NoEffect(op, h, args, ret, exc, pre) ==
    /\ last' = Call(op, h, args, ret, exc, 0, pre)
    /\ UNCHANGED <<sessions, messages, messages_fts, active_session_id,
                   EMBEDDING_QUEUE, batch, now, tz, conn, EMBEDDING_THREAD, assigned>>

\* Mem4AI._init_embedding_processor as handle h runs it: the thread is
\* assigned to the instance, so a handle that has not started one reads
\* the class attribute, which stays None, and starts its own; a thread
\* that is starting or alive is_alive().
_init_embedding_processor(h) ==
    IF EMBEDDING_THREAD[h] \in {"none", "stopped"}
      THEN [EMBEDDING_THREAD EXCEPT ![h] = "starting"]
      ELSE EMBEDDING_THREAD

\* Mem4AI.__init__
Construct(h) ==
    /\ ~Constructed(h)
    /\ conn' = [conn EXCEPT ![h]["caller"] = "open"]
    /\ active_session_id' = [active_session_id EXCEPT ![h] = None]
    /\ EMBEDDING_THREAD' = _init_embedding_processor(h)
    /\ last' = Call("init", h, <<>>, None, None, 0, NothingFound)
    /\ UNCHANGED <<sessions, messages, messages_fts, EMBEDDING_QUEUE, batch,
                   now, tz, assigned>>

\* Mem4AI.load_session(session_id, user_id); user_id = None when omitted.
LoadSession(h, session_id, user_id) ==
    LET exists == session_exists(session_id)
        args == <<session_id, user_id>>
        pre == Found(exists, session_is_active(session_id, session_timeout), 0)
    IN /\ Constructed(h)
       /\ IF Closed(h)
            THEN NoEffect("load_session", h, args, None, "ProgrammingError", pre)
          ELSE IF session_is_active(session_id, session_timeout)
            THEN /\ active_session_id' = [active_session_id EXCEPT ![h] = session_id]
                 /\ sessions' = update_session(session_id, user_id)
                 /\ last' = Call("load_session", h, args, session_id, None, 0, pre)
                 /\ UNCHANGED <<messages, messages_fts, EMBEDDING_QUEUE, batch,
                                now, tz, conn, EMBEDDING_THREAD, assigned>>
          ELSE IF user_id = None /\ ~exists
            THEN NoEffect("load_session", h, args, None, "ValueError", pre)
            ELSE /\ active_session_id' = [active_session_id EXCEPT ![h] = session_id]
                 /\ sessions' = IF exists THEN update_session(session_id, user_id)
                                          ELSE create_session(session_id, user_id)
                 /\ last' = Call("load_session", h, args, session_id, None, 0, pre)
                 /\ UNCHANGED <<messages, messages_fts, EMBEDDING_QUEUE, batch,
                                now, tz, conn, EMBEDDING_THREAD, assigned>>

\* Work waiting in the embedding pipeline.
Pending == Len(EMBEDDING_QUEUE) + Len(batch["h1"]) + Len(batch["h2"])

\* add_memory without the active-session check.
HasActiveSession_mut(h) == TRUE

\* add_memory's check "if not self.active_session_id".
HasActiveSession(h) == active_session_id[h] # None

\* Mem4AI.add_memory(message, role, metadata).  add_message returns
\* nothing, so the id put on the queue is None.
AddMemory(h, message, role, metadata) ==
    LET args == <<message, role, metadata>>
        sid == active_session_id[h]
    IN /\ Constructed(h)
       /\ IF ~HasActiveSession(h)
            THEN NoEffect("add_memory", h, args, None, "ValueError", NothingFound)
          ELSE IF Closed(h)
            THEN NoEffect("add_memory", h, args, None, "ProgrammingError", NothingFound)
            ELSE /\ \E chunk_index \in
                      IF role = "user" /\ get_last_assistant_message(sid) # {}
                        THEN {ChunkIndex(r) : r \in get_last_assistant_message(sid)}
                        ELSE {0} :
                   LET tokens == Tokenizer(message)
                       message_id == NoMessageId
                   IN /\ messages' = add_message(sid, chunk_index, role, message,
                                                 tokens, metadata)
                      /\ messages_fts' = add_message_fts(sid, role, message, metadata)
                      /\ EMBEDDING_QUEUE' =
                           IF role \in {"user", "assistant"}
                             THEN Append(EMBEDDING_QUEUE, <<message_id, message>>)
                             ELSE EMBEDDING_QUEUE
                      /\ assigned' = Max({assigned, NextRowId})
                      /\ last' = Call("add_memory", h, args, None, None, NextRowId, NothingFound)
                 /\ UNCHANGED <<sessions, active_session_id, batch, now, tz,
                                conn, EMBEDDING_THREAD>>

\* Mem4AI.get_session_messages(token_limit)
GetSessionMessages(h, token_limit) ==
    /\ Constructed(h)
    /\ IF Closed(h)
         THEN NoEffect("get_session_messages", h, <<token_limit>>, None,
                       "ProgrammingError", NothingFound)
         ELSE \E result \in get_session_messages(h, token_limit) :
                NoEffect("get_session_messages", h, <<token_limit>>, result,
                         None, NothingFound)

\* Mem4AI.search_memory(query, metadata_filter, limit_tokens=limit_tokens);
\* limit_tokens = 0 stands for an omitted argument.
SearchMemory(h, query, metadata_filter, limit_tokens) ==
    LET args == <<query, metadata_filter, limit_tokens>>
    IN /\ Constructed(h)
       /\ IF search_memory_exc(h, query) # None
            THEN NoEffect("search_memory", h, args, None,
                          search_memory_exc(h, query), NothingFound)
            ELSE \E result \in search_memory(h, query, metadata_filter, limit_tokens) :
                   NoEffect("search_memory", h, args, result, None, NothingFound)

\* Mem4AI.build_context(user_query, max_tokens); max_tokens = 0 stands
\* for an omitted (or zero) argument.
BuildContext(h, user_query, max_tokens) ==
    LET args == <<user_query, max_tokens>>
    IN /\ Constructed(h)
       /\ IF Closed(h)
            THEN NoEffect("build_context", h, args, None, "ProgrammingError",
                          NothingFound)
            ELSE \E r \in build_context(h, user_query, max_tokens) :
                   NoEffect("build_context", h, args,
                            IF r.exc = None
                              THEN [short_term |-> r.short_term,
                                    long_term |-> r.long_term]
                              ELSE None,
                            r.exc, NothingFound)

\* Rows in the three tables.
RowCount ==
    Cardinality(sessions) + Cardinality(messages) + Cardinality(messages_fts)

\* What clear_memory_by_conditions and clear_all return from their except
\* branch: False, the tables as they were.
StorageFailed ==
    [sessions |-> sessions, messages |-> messages,
     messages_fts |-> messages_fts, ret |-> FALSE]

\* Mem4AI.clear_memory(session_id, agent_id, user_id); None when omitted.
ClearMemory(h, session_id, agent_id, user_id) ==
    LET r == IF Closed(h) THEN StorageFailed
             ELSE clear_memory_by_conditions(session_id, agent_id, user_id)
    IN /\ Constructed(h)
       /\ sessions' = r.sessions
       /\ messages' = r.messages
       /\ messages_fts' = r.messages_fts
       /\ last' = Call("clear_memory", h, <<session_id, agent_id, user_id>>,
                       r.ret, None, 0, Found(FALSE, FALSE, RowCount))
       /\ UNCHANGED <<active_session_id, EMBEDDING_QUEUE, batch, now, tz,
                      conn, EMBEDDING_THREAD, assigned>>

\* Mem4AI.clear_all()
ClearAll(h) ==
    LET r == IF Closed(h) THEN StorageFailed ELSE clear_all
    IN /\ Constructed(h)
       /\ sessions' = r.sessions
       /\ messages' = r.messages
       /\ messages_fts' = r.messages_fts
       /\ last' = Call("clear_all", h, <<>>, r.ret, None, 0,
                       Found(FALSE, FALSE, RowCount))
       /\ UNCHANGED <<active_session_id, EMBEDDING_QUEUE, batch, now, tz,
                      conn, EMBEDDING_THREAD, assigned>>

\* Mem4AI.close(): DatabaseAdapter.close closes the connection of the
\* calling thread (closing a closed connection does nothing), then the
\* queue is emptied.  The consumers' batches and connections stay.
Close(h) ==
    /\ Constructed(h)
    /\ conn' = [conn EXCEPT ![h]["caller"] = "closed"]
    /\ EMBEDDING_QUEUE' = <<>>
    /\ last' = Call("close", h, <<>>, None, None, 0,
                    Found(FALSE, FALSE, Len(EMBEDDING_QUEUE)))
    /\ UNCHANGED <<sessions, messages, messages_fts, active_session_id,
                   batch, now, tz, EMBEDDING_THREAD, assigned>>

\* _process_embedding_queue up to the loop, in the thread handle h
\* started: the provider client is created, or creating it raises, the
\* except branch calls _init_embedding_processor, which finds this very
\* thread alive and starts nothing, and the thread ends.
ConsumerStart(h, client_ok) ==
    /\ EMBEDDING_THREAD[h] = "starting"
    /\ EMBEDDING_THREAD' =
          IF client_ok THEN [EMBEDDING_THREAD EXCEPT ![h] = "alive"]
          ELSE IF _init_embedding_processor(h) # EMBEDDING_THREAD
            THEN _init_embedding_processor(h)
            ELSE [EMBEDDING_THREAD EXCEPT ![h] = "stopped"]
    /\ last' = Call("consumer_start", h, <<client_ok>>, None, None, 0, NothingFound)
    /\ UNCHANGED <<sessions, messages, messages_fts, active_session_id,
                   EMBEDDING_QUEUE, batch, now, tz, conn, assigned>>

\* _process_embedding_batch letting the provider's exception escape.
_process_embedding_batch_mut(h, b, provider_ok) ==
    [sessions |-> sessions, messages |-> messages, messages_fts |-> messages_fts,
     conn |-> IF provider_ok /\ conn[h]["consumer"] = "none"
                THEN [conn EXCEPT ![h]["consumer"] = "open"]
                ELSE conn,
     calls |-> 1, batch |-> b, answered |-> provider_ok,
     raised |-> ~provider_ok]

\* _process_embedding_batch in h's consumer thread: the provider is called
\* once with the texts of the batch.  When it answers, the thread opens its
\* own connection in h's adapter and the UPDATE raises, the messages table
\* having no embedding column; when the provider fails, that raises.
\* Either exception is caught and printed: nothing is raised to the loop
\* and the tables stay as they are.
_process_embedding_batch(h, b, provider_ok) ==
    [sessions |-> sessions, messages |-> messages, messages_fts |-> messages_fts,
     conn |-> IF provider_ok /\ conn[h]["consumer"] = "none"
                THEN [conn EXCEPT ![h]["consumer"] = "open"]
                ELSE conn,
     calls |-> 1, batch |-> b, answered |-> provider_ok,
     raised |-> FALSE]

\* What a step of the loop that hands no batch to the provider records.
NoHandOff == [calls |-> 0, batch |-> <<>>, answered |-> FALSE]

\* What a step of the loop that ran _process_embedding_batch records.
HandOff(r) == [calls |-> r.calls, batch |-> r.batch, answered |-> r.answered]

\* _process_embedding_queue, the except branch around the loop: it calls
\* _init_embedding_processor, which finds this very thread alive, and the
\* thread ends.
LoopFailed(h) ==
    IF _init_embedding_processor(h) # EMBEDDING_THREAD
      THEN _init_embedding_processor(h)
      ELSE [EMBEDDING_THREAD EXCEPT ![h] = "stopped"]

\* The batch size test with a strict comparison.
BatchFull_mut(b) == Len(b) > EMBEDDING_BATCH_SIZE

\* _process_embedding_queue: the batch has reached the batch size.
BatchFull(b) == Len(b) >= EMBEDDING_BATCH_SIZE

\* The Empty branch never processing the batch.
FlushOnTimeout_mut(b) == FALSE

\* _process_embedding_queue, Empty branch: "if batch".
FlushOnTimeout(b) == b # <<>>

\* _process_embedding_queue: EMBEDDING_QUEUE.get returned an item.
ConsumerGet(h, provider_ok) ==
    /\ EMBEDDING_THREAD[h] = "alive"
    /\ EMBEDDING_QUEUE # <<>>
    /\ LET b == Append(batch[h], Head(EMBEDDING_QUEUE))
           r == _process_embedding_batch(h, b, provider_ok)
       IN IF BatchFull(b)
            THEN /\ sessions' = r.sessions
                 /\ messages' = r.messages
                 /\ messages_fts' = r.messages_fts
                 /\ conn' = r.conn
                 /\ batch' = [batch EXCEPT ![h] = <<>>]
                 /\ EMBEDDING_THREAD' = IF r.raised THEN LoopFailed(h)
                                        ELSE EMBEDDING_THREAD
                 /\ last' = Call("consumer_get", h, <<>>, HandOff(r), None, 0,
                                 NothingFound)
            ELSE /\ batch' = [batch EXCEPT ![h] = b]
                 /\ last' = Call("consumer_get", h, <<>>, NoHandOff, None, 0,
                                 NothingFound)
                 /\ UNCHANGED <<sessions, messages, messages_fts, conn,
                                EMBEDDING_THREAD>>
    /\ EMBEDDING_QUEUE' = Tail(EMBEDDING_QUEUE)
    /\ UNCHANGED <<active_session_id, now, tz, assigned>>

\* _process_embedding_queue: EMBEDDING_QUEUE.get timed out (Empty) with
\* items in the batch; a timeout with an empty batch changes nothing.
ConsumerTimeout(h, provider_ok) ==
    /\ EMBEDDING_THREAD[h] = "alive"
    /\ EMBEDDING_QUEUE = <<>>
    /\ batch[h] # <<>>
    /\ FlushOnTimeout(batch[h])
    /\ LET r == _process_embedding_batch(h, batch[h], provider_ok)
       IN /\ sessions' = r.sessions
          /\ messages' = r.messages
          /\ messages_fts' = r.messages_fts
          /\ conn' = r.conn
          /\ EMBEDDING_THREAD' = IF r.raised THEN LoopFailed(h)
                                 ELSE EMBEDDING_THREAD
          /\ last' = Call("consumer_timeout", h, <<>>, HandOff(r), None, 0,
                          NothingFound)
    /\ batch' = [batch EXCEPT ![h] = <<>>]
    /\ UNCHANGED <<active_session_id, EMBEDDING_QUEUE, now, tz, assigned>>

\* The clock advances to a later one of the given time points.
Tick(points) ==
    /\ \E t \in points : t > now /\ now' = t
    /\ last' = Call("tick", None, <<>>, None, None, 0, NothingFound)
    /\ UNCHANGED <<sessions, messages, messages_fts, active_session_id,
                   EMBEDDING_QUEUE, batch, tz, conn, EMBEDDING_THREAD, assigned>>

\* --------------------------------------------------------- specifications
\* The callers add a message only while the table holds fewer than cap rows,
\* the embedding pipeline holds fewer than MaxPending items and the next
\* rowid is at most MaxRowId.
Room(cap) ==
    /\ Cardinality(messages) < cap
    /\ Pending < MaxPending
    /\ NextRowId <= MaxRowId

\* Session lifecycle: one handle, two sessions, two users, the clock runs
\* past session_timeout; UTC host.
Init == InitWith({0})

Next ==
    \/ \E s \in SessionIds, u \in UserIds \cup {None} : LoadSession("h1", s, u)
    \/ Room(MaxSessionMsgs) /\ AddMemory("h1", Hi, "tool", NoMeta)
    \/ GetSessionMessages("h1", 0)
    \/ \E s \in SessionIds \cup {None}, u \in UserIds \cup {None} :
          ClearMemory("h1", s, NoAgent, u)
    \/ ClearAll("h1")
    \/ Tick({0, 600, 1800})

Spec == Init /\ [][Next]_vars

\* Storage: handle h1 loads sessions and stores messages with and without
\* an embedding request and agent metadata, handle h2 never loads a
\* session; every combination of clear_memory filters; the embedding
\* consumer; UTC host, every call within the same second (so a SELECT
\* ordered by timestamp may return the rows in any order).
StoreAdds == {<<Hi, "user", NoMeta>>, <<NextDay, "tool", AgentMeta>>}

NextStore ==
    \/ \E s \in SessionIds, u \in {"u1", None} : LoadSession("h1", s, u)
    \/ \E h \in Handles, a \in StoreAdds :
          (h = "h1" => Room(MaxMsgs)) /\ AddMemory(h, a[1], a[2], a[3])
    \/ \E l \in {0, 1} : GetSessionMessages("h1", l)
    \/ \E s \in SessionIds \cup {None}, a \in AgentIds \cup {NoAgent},
          u \in {"u1", None} : ClearMemory("h1", s, a, u)
    \/ ClearAll("h1")
    \/ ConsumerGet("h1", FALSE)
    \/ ConsumerTimeout("h1", FALSE)

SpecStore == Init /\ [][NextStore]_vars

\* Retrieval in one session: messages of one and two tokens, every small
\* token limit and token ceiling, queries that match some or all of the
\* messages; UTC host.
CtxAdds == {<<Hi, "tool", NoMeta>>, <<NextDay, "tool", NoMeta>>}
CtxLimits == {0, 1, 2, 3}
CtxQueries == {<<>>, Hi, <<"day">>}
CtxMaxTokens == {0, 1, 2, 3, 5}

NextCtx ==
    \/ \E u \in {"u1", None} : LoadSession("h1", "s1", u)
    \/ \E a \in CtxAdds : Room(MaxMsgs) /\ AddMemory("h1", a[1], a[2], a[3])
    \/ \E l \in CtxLimits : GetSessionMessages("h1", l)
    \/ \E q \in CtxQueries, t \in CtxMaxTokens : BuildContext("h1", q, t)
    \/ ClearAll("h1")
    \/ Tick({0, 600})

SpecCtx == Init /\ [][NextCtx]_vars

\* Chunking on a UTC host: every role in one session, up to MaxChunkMsgs
\* messages, the clock at and just past chunk_gap, the embedding consumer.
NextChunkUTC ==
    \/ LoadSession("h1", "s1", "u1")
    \/ \E r \in Roles : Room(MaxChunkMsgs) /\ AddMemory("h1", Hi, r, NoMeta)
    \/ ClearAll("h1")
    \/ ConsumerGet("h1", FALSE)
    \/ ConsumerTimeout("h1", FALSE)
    \/ Tick({0, 600, 601})

SpecChunkUTC == Init /\ [][NextChunkUTC]_vars

\* Chunking on hosts on and ahead of UTC: every role in two sessions.
TzOffsets == {0, 3600}

InitChunk == InitWith(TzOffsets)

NextChunk ==
    \/ \E s \in SessionIds : LoadSession("h1", s, "u1")
    \/ \E r \in Roles : Room(MaxMsgs) /\ AddMemory("h1", Hi, r, NoMeta)
    \/ ClearAll("h1")
    \/ ConsumerGet("h1", FALSE)
    \/ ConsumerTimeout("h1", FALSE)
    \/ Tick({0, 600, 601})

SpecChunk == InitChunk /\ [][NextChunk]_vars

\* Search: messages with string and integer metadata in two sessions;
\* queries without words, with words of the messages, with an FTS5
\* operator word and without a match; filters on a string, on the stored
\* integer and on an integer whose text the stored one starts with.
SearchAdds == {<<Hi, "tool", AgentMeta>>, <<NextDay, "tool", CountMeta>>}
SearchQueries == {<<>>, Hi, <<"hi", "AND", "day">>, <<"zz">>}
SearchFilters == {<<>>, AgentMeta, CountMeta, <<Entry("n", "int", <<"1">>)>>}
SearchLimits == {0, 1}

NextSearch ==
    \/ \E s \in SessionIds : LoadSession("h1", s, "u1")
    \/ \E a \in SearchAdds : Room(MaxMsgs) /\ AddMemory("h1", a[1], a[2], a[3])
    \/ \E q \in SearchQueries, f \in SearchFilters, l \in SearchLimits :
          SearchMemory("h1", q, f, l)
    \/ ClearAll("h1")

SpecSearch == Init /\ [][NextSearch]_vars

\* Lifecycle: the handles are constructed and closed, each starts its
\* consumer thread, the provider client can or cannot be created and the
\* provider answers or fails; one session, calls before and after
\* close(); UTC host.
InitLife ==
    /\ sessions = {}
    /\ messages = {}
    /\ messages_fts = {}
    /\ active_session_id = [h \in Handles |-> None]
    /\ EMBEDDING_QUEUE = <<>>
    /\ batch = [h \in Handles |-> <<>>]
    /\ now = 0
    /\ tz = 0
    /\ conn = [h \in Handles |-> [t \in Threads |-> "none"]]
    /\ EMBEDDING_THREAD = [h \in Handles |-> "none"]
    /\ assigned = 0
    /\ last = Call("import", None, <<>>, None, None, 0, NothingFound)

NextLife ==
    \/ \E h \in Handles : Construct(h)
    \/ \E h \in Handles, ok \in BOOLEAN : ConsumerStart(h, ok)
    \/ \E h \in Handles : LoadSession(h, "s1", "u1")
    \/ \E h \in Handles : Room(MaxMsgs) /\ AddMemory(h, Hi, "user", NoMeta)
    \/ \E h \in Handles : SearchMemory(h, Hi, <<>>, 0)
    \/ \E h \in Handles : ClearMemory(h, "s1", NoAgent, None)
    \/ \E h \in Handles : Close(h)
    \/ \E h \in Handles, ok \in BOOLEAN : ConsumerGet(h, ok)
    \/ \E h \in Handles, ok \in BOOLEAN : ConsumerTimeout(h, ok)

SpecLife == InitLife /\ [][NextLife]_vars

\* The consumer threads run whenever they can: a started thread reaches
\* its loop or its except branch, a thread in its loop takes the item that
\* waits in the queue, and its get times out on an empty queue.
SpecLifeFair ==
    /\ SpecLife
    /\ \A h \in Handles :
          /\ WF_vars(\E ok \in BOOLEAN : ConsumerStart(h, ok))
          /\ WF_vars(\E ok \in BOOLEAN : ConsumerGet(h, ok))
          /\ WF_vars(\E ok \in BOOLEAN : ConsumerTimeout(h, ok))

\* Batching: one handle keeps one message in the table and lets up to
\* MaxQueued items wait in the embedding pipeline, so that a batch reaches
\* EMBEDDING_BATCH_SIZE; the provider answers or fails; UTC host.
NextBatch ==
    \/ LoadSession("h1", "s1", "u1")
    \/ /\ Cardinality(messages) < 1
       /\ Pending < MaxQueued
       /\ AddMemory("h1", Hi, "user", NoMeta)
    \/ ClearAll("h1")
    \/ \E ok \in BOOLEAN : ConsumerGet("h1", ok)
    \/ \E ok \in BOOLEAN : ConsumerTimeout("h1", ok)

SpecBatch == Init /\ [][NextBatch]_vars

\* The consumer thread runs whenever it can: its get returns the item that
\* waits in the queue, and times out after three seconds on an empty queue.
SpecBatchFair ==
    /\ SpecBatch
    /\ WF_vars(\E ok \in BOOLEAN : ConsumerGet("h1", ok))
    /\ WF_vars(\E ok \in BOOLEAN : ConsumerTimeout("h1", ok))

\* ------------------------------------------------------------------ claims
SessionRows(session_id) == {m \in messages : m.session_id = session_id}

\* C1: whatever build_context(q, T) returns, the tokens of short_term and
\* long_term together are at most T * (1 - safety_buffer), T being the
\* context window when max_tokens is omitted.
C1_ContextWithinBudget ==
    last.op = "build_context" =>
        LET T == IF last.args[2] # 0 THEN last.args[2] ELSE context_window
        IN 10 * (SumTokens(last.ret.short_term) + SumTokens(last.ret.long_term))
              <= T * (10 - SafetyBufferTenths)

\* C2: get_session_messages(token_limit) returns what a scan from the
\* newest message of the active session backwards keeps while the
\* accumulated tokens stay within token_limit, oldest of the kept first.
C2_MostRecentThatFit ==
    (last.op = "get_session_messages" /\ last.args[1] > 0) =>
        last.ret \in
            {Reverse(ApplyLoop(Limit(o, RowLimit), last.args[1], 0)) :
                o \in OrderedDesc(SessionRows(active_session_id[last.h]))}

\* C3: clear_memory with no filter returns false and leaves the sessions,
\* the messages and the full-text mirror as they were.
C3_ClearMemoryNoFilters ==
    [][(last'.op = "clear_memory" /\ last'.args = <<None, NoAgent, None>>) =>
          /\ last'.ret = FALSE
          /\ UNCHANGED <<sessions, messages, messages_fts>>]_vars

C5_LoadSessionNewId ==
    [][(last'.op = "load_session" /\ ~session_exists(last'.args[1])) =>
          LET s == last'.args[1]
              u == last'.args[2]
          IN IF u = None
               THEN /\ last'.exc = "ValueError"
                    /\ UNCHANGED <<sessions, active_session_id>>
               ELSE /\ last'.exc = None
                    /\ last'.ret = s
                    /\ active_session_id'[last'.h] = s
                    /\ Cardinality(sessions') = Cardinality(sessions) + 1
                    /\ sessions \subseteq sessions'
                    /\ \A r \in sessions' \ sessions :
                          r.session_id = s /\ r.user_id = u]_vars

C5_Witness ==
    /\ last.op = "load_session"
    /\ ~last.pre.exists
    /\ last.exc = None
    /\ sessions # {}
    /\ \E r \in sessions : r.session_id # last.args[1]

\* C6: load_session on an id that has a session row, fresh or stale, with
\* or without a user_id: it returns the id, keeps the row's session_id and
\* created_at, sets last_active to now, changes user_id only if one is
\* given, adds no row, leaves the other rows alone and makes the id the
\* active session.
C6_LoadSessionReuses ==
    [][(last'.op = "load_session" /\ session_exists(last'.args[1])) =>
          LET s == last'.args[1]
              u == last'.args[2]
          IN /\ last'.exc = None
             /\ last'.ret = s
             /\ active_session_id'[last'.h] = s
             /\ Cardinality(sessions') = Cardinality(sessions)
             /\ \A r \in sessions :
                   IF r.session_id = s
                     THEN \E n \in sessions' :
                            /\ n.session_id = s
                            /\ n.created_at = r.created_at
                            /\ n.last_active = now
                            /\ n.user_id = IF u # None THEN u ELSE r.user_id
                     ELSE r \in sessions']_vars

C6_Witness ==
    /\ last.op = "load_session"
    /\ last.pre.exists
    /\ ~last.pre.fresh
    /\ last.args[2] = None
    /\ last.exc = None
    /\ \E r \in sessions :
          r.session_id = last.args[1] /\ r.created_at < r.last_active

\* C7: add_memory on a handle without an active session raises ValueError
\* and leaves the messages, the full-text mirror, the embedding queue and
\* the sessions as they were.
C7_AddMemoryNeedsSession ==
    [][(last'.op = "add_memory" /\ active_session_id[last'.h] = None) =>
          /\ last'.exc = "ValueError"
          /\ UNCHANGED <<messages, messages_fts, EMBEDDING_QUEUE, sessions>>]_vars

C7_Witness ==
    /\ last.op = "add_memory"
    /\ last.exc = "ValueError"
    /\ messages # {}

\* C8: right after add_memory(c, r, m) stored a row, every possible result
\* of get_session_messages with a limit that excludes nothing holds that
\* row with content c, role r and tokens = Tokenizer(c).
C8_RoundTrip ==
    (last.op = "add_memory" /\ last.exc = None) =>
        \A limit \in {0, context_window} :
            \A result \in get_session_messages(last.h, limit) :
                \E i \in 1..Len(result) :
                    /\ result[i].message_id = last.row
                    /\ result[i].content = last.args[1]
                    /\ result[i].role = last.args[2]
                    /\ result[i].tokens = Tokenizer(last.args[1])

C8_Witness ==
    /\ last.op = "add_memory"
    /\ last.exc = None
    /\ last.args[1] = NextDay
    /\ \E m \in messages : m.session_id # active_session_id[last.h]

\* C9: in every session the chunk_index of the messages in insertion order
\* never decreases, and it grows only at a user message stored more than
\* chunk_gap seconds after the session's latest assistant message.
C9_ChunkIndexMonotone ==
    \A m2 \in messages :
        LET before == {m \in SessionRows(m2.session_id) :
                          m.message_id < m2.message_id}
            previous == {m \in before : \A o \in before : o.message_id <= m.message_id}
            asst == {m \in before : m.role = "assistant"}
            latest == {a \in asst : \A o \in asst : o.message_id <= a.message_id}
        IN /\ \A m \in before : m.chunk_index <= m2.chunk_index
           /\ (\E m \in previous : m.chunk_index < m2.chunk_index) =>
                 /\ m2.role = "user"
                 /\ \E a \in latest : m2.timestamp - a.timestamp > chunk_gap

\* C10: a user message stored when its session has no assistant message
\* has chunk_index 0; stored at most chunk_gap seconds after the session's
\* latest assistant message it has that message's chunk_index, and stored
\* later than that it has that chunk_index plus 1.
C10_UserChunkIndex ==
    (last.op = "add_memory" /\ last.exc = None /\ last.args[2] = "user") =>
        \A r \in {m \in messages : m.message_id = last.row} :
            LET asst == {m \in SessionRows(r.session_id) :
                            m.role = "assistant" /\ m.message_id # r.message_id}
                latest == {a \in asst : \A o \in asst : o.timestamp <= a.timestamp}
            IN IF asst = {}
                 THEN r.chunk_index = 0
                 ELSE \E a \in latest :
                        r.chunk_index =
                            IF r.timestamp - a.timestamp > chunk_gap
                              THEN a.chunk_index + 1
                              ELSE a.chunk_index

\* C11: the provider failing on every call, search_memory(query), without
\* filter and token limit, raises nothing and returns a non-empty list of
\* messages of the active session that match the query whenever the
\* active session holds a message whose text holds a word of the query.
C11_SearchFallback ==
    (/\ last.op = "search_memory"
     /\ last.args[2] = <<>>
     /\ last.args[3] = 0
     /\ \E m \in SessionRows(active_session_id[last.h]) :
           FtsMatch(m.content, last.args[1])) =>
        /\ last.exc = None
        /\ last.ret # <<>>
        /\ \A i \in 1..Len(last.ret) :
              /\ last.ret[i] \in SessionRows(active_session_id[last.h])
              /\ FtsMatch(last.ret[i].content, last.args[1])

\* C12: search_memory and clear_memory never raise, and when the storage
\* operation fails (the handle's connection was closed by close())
\* search_memory returns the empty list and clear_memory returns false.
C12_NoExceptionSurfaces ==
    (last.op \in {"search_memory", "clear_memory"}) =>
        /\ last.exc = None
        /\ Closed(last.h) =>
              IF last.op = "search_memory" THEN last.ret = <<>>
                                           ELSE last.ret = FALSE

\* C13: every stored message's session_id is the id of a session row.
C13_MessageHasSession ==
    \A m \in messages : session_exists(m.session_id)

\* C14: after a successful add_memory the last_active of the handle's
\* active session is the time of that append.
C14_LastActiveOnAppend ==
    (last.op = "add_memory" /\ last.exc = None) =>
        \A s \in sessions :
            s.session_id = active_session_id[last.h] => s.last_active = now

\* C15: no stored message is in both the short_term and the long_term
\* sequence that build_context returns.
C15_ContextDisjoint ==
    (last.op = "build_context" /\ last.exc = None) =>
        \A i \in 1..Len(last.ret.short_term), j \in 1..Len(last.ret.long_term) :
            last.ret.short_term[i].message_id # last.ret.long_term[j].message_id

\* C16: clear_memory with at least one filter deletes exactly the messages
\* that match a supplied filter (session_id equal, session owned by
\* user_id, agent_id the value of the metadata's agent_id), with their
\* mirror rows, and exactly the sessions that session_id or user_id
\* identify; all other rows stay as they were.
C16_ClearMemoryFilters ==
    [][(last'.op = "clear_memory" /\ last'.args # <<None, NoAgent, None>>) =>
          LET session_id == last'.args[1]
              agent_id == last'.args[2]
              user_id == last'.args[3]
              SessionMatches(s) ==
                  \/ session_id # None /\ s.session_id = session_id
                  \/ user_id # None /\ s.user_id = user_id
              MessageMatches(m) ==
                  \/ session_id # None /\ m.session_id = session_id
                  \/ /\ user_id # None
                     /\ \E s \in sessions :
                           s.session_id = m.session_id /\ s.user_id = user_id
                  \/ /\ agent_id # NoAgent
                     /\ \E i \in 1..Len(m.metadata) :
                           m.metadata[i] = Entry("agent_id", "str", agent_id)
          IN /\ sessions' = {s \in sessions : ~SessionMatches(s)}
             /\ messages' = {m \in messages : ~MessageMatches(m)}
             /\ messages_fts' =
                   {f \in messages_fts :
                       \A m \in messages :
                           m.message_id = f.rowid => ~MessageMatches(m)}]_vars

\* C17: every message search_memory returns under a metadata filter has,
\* for each entry k: v of the filter, metadata that maps k to exactly v
\* (same type, same text).
C17_MetadataEquality ==
    (last.op = "search_memory" /\ last.exc = None) =>
        \A i \in 1..Len(last.ret), j \in 1..Len(last.args[2]) :
            \E n \in 1..Len(last.ret[i].metadata) :
                last.ret[i].metadata[n] = last.args[2][j]

\* The consumer threads that were started and have not ended.
LiveConsumers == {h \in Handles : EMBEDDING_THREAD[h] \in {"starting", "alive"}}

\* C18: however many handles were constructed, never more than one
\* consumer thread is alive (that a consumer which ended is replaced is
\* C19).
C18_SingleConsumer ==
    Cardinality(LiveConsumers) <= 1

\* C19: whenever a consumer thread has ended with an exception, a live
\* consumer exists again later, and whatever waits in the queue then is
\* eventually taken from it.
C19_ConsumerRestarts ==
    /\ \A h \in Handles :
          (EMBEDDING_THREAD[h] = "stopped") ~> (LiveConsumers # {})
    /\ (\E h \in Handles : EMBEDDING_THREAD[h] = "stopped") ~>
          (EMBEDDING_QUEUE = <<>>)

\* C20: after close() on a handle, no thread's connection in the handle's
\* adapter is open, the consumer thread's included, and the embedding
\* queue is empty.
C20_CloseReleasesAll ==
    last.op = "close" =>
        /\ \A t \in Threads : conn[last.h][t] # "open"
        /\ EMBEDDING_QUEUE = <<>>

\* C21: a newly inserted message gets an id greater than every id ever
\* assigned before, whatever was deleted in between.
C21_IdsNeverReused ==
    [][(last'.op = "add_memory" /\ last'.exc = None) =>
          last'.row > assigned]_vars

\* C22: get_session_messages(L) returns, for every L, 0 included, the
\* longest prefix of the session's chronological list whose token sum is
\* at most L: it stops at the first message that would exceed L.
C22_GreedyPrefix ==
    (last.op = "get_session_messages" /\ last.exc = None) =>
        \E all_messages \in db_get_session_messages(active_session_id[last.h],
                                                     RowLimit) :
            LET L == last.args[1]
                n == Len(last.ret)
            IN /\ n <= Len(all_messages)
               /\ last.ret = SubSeq(all_messages, 1, n)
               /\ SumTokens(last.ret) <= L
               /\ n < Len(all_messages) =>
                     SumTokens(last.ret) + all_messages[n + 1].tokens > L

C24_QueueItem ==
    [][(last'.op = "add_memory" /\ last'.exc = None) =>
          EMBEDDING_QUEUE' =
              IF last'.args[2] \in {"user", "assistant"}
                THEN Append(EMBEDDING_QUEUE, <<last'.row, last'.args[1]>>)
                ELSE EMBEDDING_QUEUE]_vars

\* A step of a consumer's loop that handed a batch to the provider.
HandedOff(c) == c.op \in {"consumer_get", "consumer_timeout"} /\ c.ret.calls > 0

\* C25: the provider is called once per batch, with at least one and at
\* most EMBEDDING_BATCH_SIZE items, and the items a consumer has taken from
\* the queue are, in order, the ones it hands over and the ones it still
\* holds: none is handed twice and none is lost.
C25_BatchBounds ==
    [][last'.op \in {"consumer_get", "consumer_timeout"} =>
          LET h == last'.h
              taken == IF last'.op = "consumer_get"
                         THEN <<Head(EMBEDDING_QUEUE)>> ELSE <<>>
          IN /\ last'.ret.calls \in {0, 1}
             /\ last'.ret.calls = 0 => last'.ret.batch = <<>>
             /\ last'.ret.calls = 1 =>
                   /\ Len(last'.ret.batch) >= 1
                   /\ Len(last'.ret.batch) <= EMBEDDING_BATCH_SIZE
             /\ batch[h] \o taken = last'.ret.batch \o batch'[h]
             /\ Len(batch'[h]) < EMBEDDING_BATCH_SIZE]_vars

C25_Witness ==
    /\ last.op = "consumer_get"
    /\ last.ret.calls = 1
    /\ Len(last.ret.batch) = EMBEDDING_BATCH_SIZE

\* C26: when the provider fails for a batch (and also when it answers, the
\* write-back failing then), the tables stay as they are, the batch is
\* dropped, nothing goes back on the queue and the consumer stays alive.
C26_FailedBatchDropped ==
    [][HandedOff(last') =>
          /\ messages' = messages
          /\ messages_fts' = messages_fts
          /\ sessions' = sessions
          /\ batch'[last'.h] = <<>>
          /\ EMBEDDING_QUEUE' = IF last'.op = "consumer_get"
                                  THEN Tail(EMBEDDING_QUEUE)
                                  ELSE EMBEDDING_QUEUE
          /\ EMBEDDING_THREAD'[last'.h] = "alive"]_vars

C26_Witness ==
    /\ last.op = "consumer_timeout"
    /\ last.ret.calls = 1
    /\ ~last.ret.answered
    /\ messages # {}
    /\ EMBEDDING_THREAD["h1"] = "alive"

\* C27: with a consumer alive and close() never called, whenever items
\* wait in the queue or in the consumer's batch, a batch is eventually
\* handed to the provider; the queue being first-in first-out and a
\* hand-off taking the whole batch, every item is eventually handed over.
C27_EventuallyHanded ==
    (Pending > 0) ~> (HandedOff(last) /\ batch["h1"] = <<>>)

C27_Witness ==
    /\ last.op = "consumer_timeout"
    /\ last.ret.calls = 1
    /\ Len(last.ret.batch) > 1
    /\ Len(last.ret.batch) < EMBEDDING_BATCH_SIZE
    /\ Pending = 0

\* C28: every message search_memory returns belongs to the active session
\* of the handle that searched; a handle without an active session gets
\* nothing.
C28_SearchInActiveSession ==
    (last.op = "search_memory" /\ last.exc = None) =>
        \A i \in 1..Len(last.ret) :
            last.ret[i].session_id = active_session_id[last.h]

\* C29: close() on a handle leaves the items other handles have enqueued
\* on the queue.  A handle that never loaded a session has stored and
\* enqueued nothing, as a handle on another database: every item waiting
\* when it closes was enqueued by another handle.
C29_CloseKeepsOthersItems ==
    [][(last'.op = "close" /\ active_session_id[last'.h] = None) =>
          EMBEDDING_QUEUE' = EMBEDDING_QUEUE]_vars

\* C30: get_session_messages without a token limit returns the messages
\* of the session in the order they were inserted, messages stored within
\* the same second included.
C30_InsertionOrder ==
    (last.op = "get_session_messages" /\ last.exc = None /\ last.args[1] = 0) =>
        \A i \in 1..Len(last.ret) : \A j \in 1..Len(last.ret) :
            i < j => last.ret[i].message_id < last.ret[j].message_id

====
